---- MODULE Spec2Model ----
(***************************************************************************)
(* popsyntools: planet population statistics (stats.py), log-bin and       *)
(* occurrence-map plotting (planetePlots.py) and the file helper           *)
(* replace_line (utils.py), as state machines.                             *)
(*                                                                         *)
(* A DataFrame is a sequence of rows (index order) plus a set of column    *)
(* names; a text file is a sequence of one-character strings; a ratio of   *)
(* two Python ints is kept as the pair <<numerator, denominator>>.         *)
(***************************************************************************)
EXTENDS Integers, Sequences, FiniteSets, TLC

VARIABLES
    population,   \* stats: rows of the caller's DataFrame (mutated in place)
    columns,      \* stats: column names of the caller's DataFrame
    call,         \* stats: the last call made and its arguments
    ret,          \* stats: what the last call returned or raised
    warnings,     \* stats: what the last call emitted through warnings.warn
    runs,         \* stats: how often categorizePlanets has run on the table
    fs,           \* utils: path -> file content, or Missing
    pc,           \* utils: position inside replace_line
    rl,           \* utils: replace_line's arguments, locals and the pre-call file
    binsPc,       \* plots: position inside compute_logbins
    binsArgs,     \* plots: compute_logbins' arguments
    logRange,     \* plots: compute_logbins' local logRange
    bins,         \* plots: compute_logbins' result
    plotArgs,     \* plots: plot_occurrence's arguments
    plotOut,      \* plots: plot_occurrence's outcome
    axes          \* plots: axis -> set of artists and settings drawn on it

statsVars == <<population, columns, call, ret, warnings, runs>>
fileVars  == <<fs, pc, rl>>
binVars   == <<binsPc, binsArgs, logRange, bins>>
plotVars  == <<plotArgs, plotOut, axes>>
vars      == <<population, columns, call, ret, warnings, runs, fs, pc, rl,
               binsPc, binsArgs, logRange, bins, plotArgs, plotOut, axes>>

(***************************************************************************)
(* Bounds                                                                  *)
(***************************************************************************)
MaxRows  == 2   \* rows of a population
MaxRuns  == 2   \* runs of categorizePlanets that are told apart
MaxLen   == 3   \* characters of the file replace_line rewrites
MaxPat   == 2   \* characters of replace_line's pattern
MaxRep   == 1   \* characters of replace_line's replacement
MaxExp   == 4   \* Range bounds of compute_logbins are 10^0 .. 10^MaxExp
MaxWidth == 3   \* binWidth_dex of compute_logbins is 1 .. MaxWidth

(***************************************************************************)
(* stats.py                                                                *)
(***************************************************************************)

\* np.nan: the value of a missing cell
NaN == "NaN"

\* config.massLimits(): category name -> (lower exclusive, upper inclusive]
massLimits ==
    [pType \in {"Earth", "Neptune", "Giant"} |->
        CASE pType = "Earth"   -> <<1, 2>>
          [] pType = "Neptune" -> <<2, 3>>
          [] pType = "Giant"   -> <<3, 4>>]

\* iteration order of the dictionary returned by config.massLimits()
limKeys == <<"Earth", "Neptune", "Giant">>

Statuses == {0, 1, 2}
Masses   == 1..(massLimits["Giant"][2] + 1)
Systems  == 1..MaxRows

\* the rows of a table that has no planetType column yet
Row == [status : Statuses, m : Masses, isystem : Systems, planetType : {NaN}]

BaseColumns == {"status", "m", "isystem"}

\* pandas: cell + suffix on a column of labels; a missing cell stays missing
StrAdd(cell, suffix) == IF cell = NaN THEN NaN ELSE cell \o suffix

\* mask_status of categorizePlanets
mask_status(row) == row.status = 0 \/ row.status = 2

\* AssignType with the lower mass limit taken as inclusive
AssignTypeClosed(pop, pType) ==
    [i \in DOMAIN pop |->
        IF /\ mask_status(pop[i])
           /\ pop[i].m >= massLimits[pType][1]
           /\ pop[i].m <= massLimits[pType][2]
        THEN [pop[i] EXCEPT !.planetType = pType]
        ELSE pop[i]]

\* one pass of the loop body: population.loc[mask, 'planetType'] = pType
\* (a column that does not exist yet is created, its cells outside the mask
\* missing)
AssignType(pop, pType) ==
    [i \in DOMAIN pop |->
        IF /\ mask_status(pop[i])
           /\ pop[i].m > massLimits[pType][1]
           /\ pop[i].m <= massLimits[pType][2]
        THEN [pop[i] EXCEPT !.planetType = pType]
        ELSE pop[i]]

\* CategorizeLoop that labels only the rows that have no label yet
RECURSIVE CategorizeLoopUnset(_, _)
CategorizeLoopUnset(pop, k) ==
    IF k > Len(limKeys) THEN pop
    ELSE CategorizeLoopUnset(
             [i \in DOMAIN pop |->
                 IF pop[i].planetType = NaN THEN AssignType(pop, limKeys[k])[i]
                 ELSE pop[i]], k + 1)

\* the loop "for pType in lim", from its k-th key on
RECURSIVE CategorizeLoop(_, _)
CategorizeLoop(pop, k) ==
    IF k > Len(limKeys) THEN pop
    ELSE CategorizeLoop(AssignType(pop, limKeys[k]), k + 1)

\* LabelEjected that appends the suffix to every labelled row
LabelEjectedAll(pop) ==
    [i \in DOMAIN pop |-> [pop[i] EXCEPT !.planetType = StrAdd(@, "_ejected")]]

\* population.loc[population['status'] == 2, 'planetType'] += '_ejected'
LabelEjected(pop) ==
    [i \in DOMAIN pop |->
        IF pop[i].status = 2
        THEN [pop[i] EXCEPT !.planetType = StrAdd(@, "_ejected")]
        ELSE pop[i]]

categorizePlanets(pop) == LabelEjected(CategorizeLoop(pop, 1))

\* population[population['planetType'] == pType]
RowsOfType(pop, pType) == SelectSeq(pop, LAMBDA row : row.planetType = pType)

Frame(rows, cols) == [kind |-> "frame", rows |-> rows, columns |-> cols]

\* filterPlanets that categorizes before it looks the name up
filterPlanetsEager(pop, cols, pType) ==
    LET cat == categorizePlanets(pop)
        c2  == cols \cup {"planetType"}
    IN  IF pType \notin DOMAIN massLimits
        THEN [warned |-> TRUE, pop |-> cat, cols |-> c2, ret |-> Frame(cat, c2)]
        ELSE [warned |-> FALSE, pop |-> cat, cols |-> c2,
              ret |-> Frame(RowsOfType(cat, pType), c2)]

\* the value filterPlanets returns, the DataFrame it leaves behind and
\* whether it warned
filterPlanets(pop, cols, pType) ==
    IF pType \notin DOMAIN massLimits
    THEN [warned |-> TRUE, pop |-> pop, cols |-> cols, ret |-> Frame(pop, cols)]
    ELSE LET cat == categorizePlanets(pop)
             c2  == cols \cup {"planetType"}
         IN  [warned |-> FALSE, pop |-> cat, cols |-> c2,
              ret |-> Frame(RowsOfType(cat, pType), c2)]

NoCall == [op |-> "none"]
NoRet  == [kind |-> "none"]

\* Series.nunique() of the isystem column
nunique(rows) == Cardinality({rows[i].isystem : i \in DOMAIN rows})

\* Python's true division a/b of two ints, kept exact as <<a, b>>; it
\* raises ZeroDivisionError when b is 0
TrueDiv(a, b) == <<a, b>>
DivRaises(b)  == b = 0

\* Series.mean() and Series.std() (sample standard deviation) of a numeric
\* column: missing for too few rows, else some number
SeriesMean(rows) == IF Len(rows) = 0 THEN NaN ELSE "number"
SeriesStd(rows)  == IF Len(rows) < 2 THEN NaN ELSE "number"

\* utils.convert_dgr2metallicity: adds the column 'metallicity' to the table
convert_dgr2metallicity(rows) == rows

\* the multiplicity entry of get_typeStats
multiplicity(filtered) ==
    LET Nplanets  == Len(filtered)
        Nfiltered == Len(filtered)
    IN  IF Nfiltered > 0 THEN TrueDiv(Nplanets, Nfiltered) ELSE <<0, 1>>

get_typeStats(pop, filtered) ==
    LET Nplanets        == Len(filtered)
        Nsystems        == nunique(filtered)
        fractionSystems == TrueDiv(Nsystems, nunique(pop))
        occurrence      == TrueDiv(Nplanets, Len(pop))
        withMetallicity == convert_dgr2metallicity(filtered)
    IN  IF DivRaises(nunique(pop)) \/ DivRaises(Len(pop))
        THEN [kind |-> "ZeroDivisionError"]
        ELSE [kind            |-> "stats",
              Nplanets        |-> Nplanets,
              Nsystems        |-> Nsystems,
              fractionSystems |-> fractionSystems,
              occurrence      |-> occurrence,
              multiplicity    |-> multiplicity(filtered),
              meanMetallicity |-> SeriesMean(withMetallicity),
              stdMetallicity  |-> SeriesStd(withMetallicity),
              meanEccentricity |-> SeriesMean(filtered),
              stdEccentricity  |-> SeriesStd(filtered)]

\* the rows of pop at the index positions S, in index order
RECURSIVE RowsAt(_, _, _)
RowsAt(pop, S, i) ==
    IF i > Len(pop) THEN <<>>
    ELSE (IF i \in S THEN <<pop[i]>> ELSE <<>>) \o RowsAt(pop, S, i + 1)

\* names a caller may pass as pType: the table's keys, a name the table
\* does not hold, and a label categorizePlanets writes but the table lacks
PTypeArgs == DOMAIN massLimits \cup {"Jupiter", "Earth_ejected"}

\* the run counter stops counting at MaxRuns
Counted(n) == IF n < MaxRuns THEN n + 1 ELSE n

Populations == UNION {[1..n -> Row] : n \in 0..MaxRows}

\* populations of one system: categorizePlanets and filterPlanets do not
\* read isystem
OneSystem == {pop \in Populations : \A i \in DOMAIN pop : pop[i].isystem = 1}

StatsInit(pops) ==
    /\ population \in pops
    /\ columns = BaseColumns
    /\ call = NoCall
    /\ ret = NoRet
    /\ warnings = {}
    /\ runs = 0

\* a caller runs categorizePlanets(population)
CategorizePlanets ==
    /\ population' = categorizePlanets(population)
    /\ columns' = columns \cup {"planetType"}
    /\ call' = [op |-> "categorizePlanets"]
    /\ ret' = Frame(population', columns')
    /\ runs' = Counted(runs)
    /\ warnings' = {}
    /\ UNCHANGED <<fileVars, binVars, plotVars>>

\* a caller runs filterPlanets(population, pType)
FilterPlanets ==
    /\ UNCHANGED <<fileVars, binVars, plotVars>>
    /\ \E pType \in PTypeArgs :
           LET out == filterPlanets(population, columns, pType)
           IN  /\ population' = out.pop
               /\ columns' = out.cols
               /\ call' = [op |-> "filterPlanets", pType |-> pType]
               /\ ret' = out.ret
               /\ warnings' = IF out.warned THEN {pType} ELSE {}
               /\ runs' = IF out.warned THEN runs ELSE Counted(runs)

\* a caller runs get_typeStats(population, population_filtered) with a
\* row subset of the population
GetTypeStats ==
    /\ UNCHANGED <<fileVars, binVars, plotVars>>
    /\ \E S \in SUBSET (1..Len(population)) :
           LET filtered == RowsAt(population, S, 1)
           IN  /\ call' = [op |-> "get_typeStats", filtered |-> filtered]
               /\ ret' = get_typeStats(population, filtered)
               /\ warnings' = {}
               /\ UNCHANGED <<population, columns, runs>>

(***************************************************************************)
(* utils.py: replace_line                                                  *)
(***************************************************************************)

Chars    == {"a", "b", "\n"}
PatChars == {"a", "b"}

SeqsUpTo(S, n) == UNION {[1..k -> S] : k \in 0..n}

File(text) == [exists |-> TRUE, text |-> text]
Missing    == [exists |-> FALSE, text |-> <<>>]

\* the paths the call touches: filename, filename + '.bak', mkstemp()'s path
Filename == "f"
BakPath  == Filename \o ".bak"
TmpPath  == "tmp"
Paths    == {Filename, BakPath, TmpPath}

\* whether pat starts at position i of text
MatchAt(text, pat, i) ==
    /\ i + Len(pat) - 1 <= Len(text)
    /\ \A j \in 1..Len(pat) : text[i + j - 1] = pat[j]

\* str.replace(pat, rep): left to right, non-overlapping; an empty pat
\* matches before every character and at the end
RECURSIVE ReplaceFrom(_, _, _, _)
ReplaceFrom(text, pat, rep, i) ==
    IF i > Len(text) THEN (IF pat = <<>> THEN rep ELSE <<>>)
    ELSE IF pat = <<>> THEN rep \o <<text[i]>> \o ReplaceFrom(text, pat, rep, i + 1)
    ELSE IF MatchAt(text, pat, i)
         THEN rep \o ReplaceFrom(text, pat, rep, i + Len(pat))
         ELSE <<text[i]>> \o ReplaceFrom(text, pat, rep, i + 1)

StrReplace(line, pat, rep) == ReplaceFrom(line, pat, rep, 1)

\* the end of the line that starts at position i: "for line in old_file"
\* yields each line with its terminator
RECURSIVE LineEnd(_, _)
LineEnd(text, i) ==
    IF i >= Len(text) \/ text[i] = "\n" THEN i ELSE LineEnd(text, i + 1)

\* the with-block: every line of the old file written, replaced, to the
\* new file
RECURSIVE WriteLines(_, _, _, _)
WriteLines(text, pat, rep, i) ==
    IF i > Len(text) THEN <<>>
    ELSE LET e == LineEnd(text, i)
         IN  StrReplace(SubSeq(text, i, e), pat, rep)
                 \o WriteLines(text, pat, rep, e + 1)

\* the with-block with line.replace(pattern, replacement, 1): the first
\* occurrence of each line only
RECURSIVE FirstOnlyFrom(_, _, _, _)
FirstOnlyFrom(text, pat, rep, i) ==
    IF i > Len(text) THEN <<>>
    ELSE IF MatchAt(text, pat, i)
         THEN rep \o SubSeq(text, i + Len(pat), Len(text))
         ELSE <<text[i]>> \o FirstOnlyFrom(text, pat, rep, i + 1)

RECURSIVE WriteLinesFirstOnly(_, _, _, _)
WriteLinesFirstOnly(text, pat, rep, i) ==
    IF i > Len(text) THEN <<>>
    ELSE LET e == LineEnd(text, i)
         IN  FirstOnlyFrom(SubSeq(text, i, e), pat, rep, 1)
                 \o WriteLinesFirstOnly(text, pat, rep, e + 1)

NewFileTextFirstOnly(text, pat, rep) == WriteLinesFirstOnly(text, pat, rep, 1)

NewFileText(text, pat, rep) == WriteLines(text, pat, rep, 1)

\* a backup made by moving the original away instead of copying it
copy2Moving(f, src, dst) == [f EXCEPT ![dst] = f[src], ![src] = Missing]

\* copy2(src, dst): dst is created or overwritten with src's content
copy2(f, src, dst) == [f EXCEPT ![dst] = f[src]]

\* os.remove(path)
remove(f, path) == [f EXCEPT ![path] = Missing]

\* os.rename(src, dst), the same-filesystem case of shutil.move
rename(f, src, dst) == [f EXCEPT ![dst] = f[src], ![src] = Missing]

FileInit ==
    /\ \E text \in SeqsUpTo(Chars, MaxLen), old \in {Missing, File(<<"b">>)},
          there \in BOOLEAN :
          fs = [p \in Paths |->
                   IF p = Filename THEN (IF there THEN File(text) ELSE Missing)
                   ELSE IF p = BakPath THEN old ELSE Missing]
    /\ pc = "start"
    /\ \E pat \in SeqsUpTo(PatChars, MaxPat), rep \in SeqsUpTo(PatChars, MaxRep),
          backup \in BOOLEAN :
          rl = [pattern |-> pat, replacement |-> rep, backup |-> backup,
                before |-> fs[Filename]]

\* fh, abs_path = mkstemp()
Mkstemp ==
    /\ pc = "start"
    /\ fs' = [fs EXCEPT ![TmpPath] = File(<<>>)]
    /\ pc' = "write"
    /\ UNCHANGED rl
    /\ UNCHANGED <<statsVars, binVars, plotVars>>

\* open(filename) on a file that does not exist
OpenFails ==
    /\ pc = "write"
    /\ ~fs[Filename].exists
    /\ pc' = "FileNotFoundError"
    /\ UNCHANGED <<fs, rl>>
    /\ UNCHANGED <<statsVars, binVars, plotVars>>

\* the with-block over an existing file
WriteNewFile ==
    /\ pc = "write"
    /\ fs[Filename].exists
    /\ fs' = [fs EXCEPT ![TmpPath] =
                 File(NewFileText(fs[Filename].text, rl.pattern, rl.replacement))]
    /\ pc' = "backup"
    /\ UNCHANGED rl
    /\ UNCHANGED <<statsVars, binVars, plotVars>>

\* if backup: copy2(filename, filename + '.bak')
Backup ==
    /\ pc = "backup"
    /\ fs' = IF rl.backup THEN copy2(fs, Filename, BakPath) ELSE fs
    /\ pc' = "remove"
    /\ UNCHANGED rl
    /\ UNCHANGED <<statsVars, binVars, plotVars>>

\* remove(filename)
Remove ==
    /\ pc = "remove"
    /\ fs' = remove(fs, Filename)
    /\ pc' = "move"
    /\ UNCHANGED rl
    /\ UNCHANGED <<statsVars, binVars, plotVars>>

\* move(abs_path, filename), temporary file on the target's filesystem
MoveRename ==
    /\ pc = "move"
    /\ fs' = rename(fs, TmpPath, Filename)
    /\ pc' = "done"
    /\ UNCHANGED rl
    /\ UNCHANGED <<statsVars, binVars, plotVars>>

\* move(abs_path, filename) across filesystems: the copy opens the target
MoveCopyOpen ==
    /\ pc = "move"
    /\ fs' = [fs EXCEPT ![Filename] = File(<<>>)]
    /\ pc' = "copy"
    /\ UNCHANGED rl
    /\ UNCHANGED <<statsVars, binVars, plotVars>>

\* ... and writes the temporary file's content to it piece by piece
MoveCopyWrite ==
    /\ pc = "copy"
    /\ Len(fs[Filename].text) < Len(fs[TmpPath].text)
    /\ fs' = [fs EXCEPT ![Filename] =
                 File(SubSeq(fs[TmpPath].text, 1, Len(fs[Filename].text) + 1))]
    /\ UNCHANGED <<pc, rl>>
    /\ UNCHANGED <<statsVars, binVars, plotVars>>

\* ... and, the copy complete, unlinks the temporary file
MoveCopyUnlink ==
    /\ pc = "copy"
    /\ Len(fs[Filename].text) = Len(fs[TmpPath].text)
    /\ fs' = remove(fs, TmpPath)
    /\ pc' = "done"
    /\ UNCHANGED rl
    /\ UNCHANGED <<statsVars, binVars, plotVars>>

(***************************************************************************)
(* planetePlots.py: compute_logbins                                        *)
(***************************************************************************)

\* 10**k
RECURSIVE Pow10(_)
Pow10(k) == IF k = 0 THEN 1 ELSE 10 * Pow10(k - 1)

\* np.log10 of a power of ten
RECURSIVE log10(_)
log10(x) == IF x = 1 THEN 0 ELSE 1 + log10(x \div 10)

\* np.arange(start, stop, step): ceil((stop - start)/step) values from start
arange(start, stop, step) ==
    LET n == IF stop > start THEN (stop - start + step - 1) \div step ELSE 0
    IN  [i \in 1..n |-> start + (i - 1) * step]

\* logRange without the added binWidth_dex
LogRangeOfPlain(binWidth_dex, Range) == <<log10(Range[1]), log10(Range[2])>>

\* logRange = (np.log10(Range[0]), np.log10(Range[1]) + binWidth_dex)
LogRangeOf(binWidth_dex, Range) ==
    <<log10(Range[1]), log10(Range[2]) + binWidth_dex>>

\* 10**np.arange(logRange[0], logRange[1], binWidth_dex)
EdgesOf(lr, binWidth_dex) ==
    LET a == arange(lr[1], lr[2], binWidth_dex)
    IN  [i \in DOMAIN a |-> Pow10(a[i])]

compute_logbins(binWidth_dex, Range) ==
    EdgesOf(LogRangeOf(binWidth_dex, Range), binWidth_dex)

BinsInit ==
    /\ binsPc = "start"
    /\ \E w \in 1..MaxWidth, lo \in 0..MaxExp, hi \in 0..MaxExp :
          binsArgs = [binWidth_dex |-> w, Range |-> <<Pow10(lo), Pow10(hi)>>]
    /\ logRange = <<>>
    /\ bins = <<>>

\* line 82
ComputeLogRange ==
    /\ binsPc = "start"
    /\ logRange' = LogRangeOf(binsArgs.binWidth_dex, binsArgs.Range)
    /\ binsPc' = "logRange"
    /\ UNCHANGED <<binsArgs, bins>>
    /\ UNCHANGED <<statsVars, fileVars, plotVars>>

\* line 83
ReturnEdges ==
    /\ binsPc = "logRange"
    /\ bins' = EdgesOf(logRange, binsArgs.binWidth_dex)
    /\ binsPc' = "done"
    /\ UNCHANGED <<binsArgs, logRange>>
    /\ UNCHANGED <<statsVars, fileVars, plotVars>>

(***************************************************************************)
(* planetePlots.py: plot_occurrence                                        *)
(***************************************************************************)

\* Python's None, and the objects of a call: the axis the caller may pass,
\* another axis pyplot may hold as current, and those plt.subplots() makes
None    == "None"
UserAx  == "userAx"
OtherAx == "otherAx"
NewAx   == "newAx"
NewFig  == "newFig"
Unbound == "unbound"
AxNames == {UserAx, OtherAx, NewAx}

PlotArgs ==
    [ax : {None, UserAx}, hasX : BOOLEAN, hasY : BOOLEAN, hasStatus : BOOLEAN,
     nBins : BOOLEAN, smooth : BOOLEAN, normalize : BOOLEAN,
     discreteColors : BOOLEAN, gca : {UserAx, OtherAx}]

\* "if not ax: fig, ax = plt.subplots()": the locals fig and ax, and
\* pyplot's current axis, after these two lines
AfterSubplots(a) ==
    IF a.ax = None
    THEN [fig |-> NewFig, ax |-> NewAx, gca |-> NewAx]
    ELSE [fig |-> Unbound, ax |-> a.ax, gca |-> a.gca]

\* drawing the artists S on the axis name of drawing d
Draw(d, name, S) == [d EXCEPT ![name] = @ \cup S]

\* the histogram returned: the rows it counts (those of status 0 when the
\* table has a status column), how its bins were made, and which of the
\* optional steps were applied to it
Histogram(a) ==
    [rows |-> IF a.hasStatus THEN "survived" ELSE "all",
     bins |-> IF a.nBins THEN "logspace" ELSE "compute_logbins",
     smoothed |-> a.smooth, normalized |-> a.normalize]

\* the whole call: its outcome and the drawings it leaves
plot_occurrence(a, d) ==
    IF ~(a.hasX /\ a.hasY)
    THEN [out |-> [kind |-> "KeyError"], axes |-> d]
    ELSE LET l  == AfterSubplots(a)
             \* plt.contourf draws on the current axis, ax.pcolormesh on ax
             d1 == IF a.discreteColors THEN Draw(d, l.gca, {"contourf"})
                   ELSE Draw(d, l.ax, {"pcolormesh"})
             \* plt.xscale('log'); plt.yscale('log')
             d2 == Draw(d1, l.gca, {"xscale", "yscale"})
             \* cbar = fig.colorbar(im); cbar.set_label(...);
             \* plt.xlabel(xAxis); plt.ylabel(yAxis)
             d3 == Draw(Draw(d2, l.ax, {"colorbar"}), l.gca, {"xlabel", "ylabel"})
         IN  IF l.fig = Unbound
             THEN [out |-> [kind |-> "UnboundLocalError"], axes |-> d2]
             ELSE [out |-> [kind |-> "returned", h |-> Histogram(a), ax |-> l.ax],
                   axes |-> d3]

PlotInit ==
    /\ plotArgs \in PlotArgs
    /\ plotOut = [kind |-> "none"]
    /\ axes = [n \in AxNames |-> {}]

PlotOccurrence ==
    /\ plotOut.kind = "none"
    /\ LET r == plot_occurrence(plotArgs, axes)
       IN  /\ plotOut' = r.out
           /\ axes' = r.axes
    /\ UNCHANGED plotArgs
    /\ UNCHANGED <<statsVars, fileVars, binVars>>

(***************************************************************************)
(* Specifications: one per module function group; each leaves the other    *)
(* groups' state at its initial value.                                     *)
(***************************************************************************)

StatsIdle ==
    /\ population = <<>>
    /\ columns = BaseColumns
    /\ call = NoCall
    /\ ret = NoRet
    /\ warnings = {}
    /\ runs = 0

FileIdle ==
    /\ fs = [p \in Paths |-> Missing]
    /\ pc = "idle"
    /\ rl = [pattern |-> <<>>, replacement |-> <<>>, backup |-> FALSE,
             before |-> Missing]

BinsIdle ==
    /\ binsPc = "idle"
    /\ binsArgs = [binWidth_dex |-> 1, Range |-> <<1, 1>>]
    /\ logRange = <<>>
    /\ bins = <<>>

PlotIdle ==
    /\ plotArgs = [ax |-> None, hasX |-> FALSE, hasY |-> FALSE,
                   hasStatus |-> FALSE, nBins |-> FALSE, smooth |-> FALSE,
                   normalize |-> FALSE, discreteColors |-> FALSE, gca |-> OtherAx]
    /\ plotOut = [kind |-> "idle"]
    /\ axes = [n \in AxNames |-> {}]

\* categorizePlanets and filterPlanets on one population
Init == StatsInit(OneSystem) /\ FileIdle /\ BinsIdle /\ PlotIdle
Next == CategorizePlanets \/ FilterPlanets
Spec == Init /\ [][Next]_vars

\* get_typeStats on a population and a row subset of it
InitTypeStats == StatsInit(Populations) /\ FileIdle /\ BinsIdle /\ PlotIdle
SpecTypeStats == InitTypeStats /\ [][GetTypeStats]_vars

\* one call of replace_line
InitFile == StatsIdle /\ FileInit /\ BinsIdle /\ PlotIdle
NextFile ==
    \/ Mkstemp
    \/ OpenFails
    \/ WriteNewFile
    \/ Backup
    \/ Remove
    \/ MoveRename
    \/ MoveCopyOpen
    \/ MoveCopyWrite
    \/ MoveCopyUnlink
SpecFile == InitFile /\ [][NextFile]_vars

\* one call of compute_logbins
InitBins == StatsIdle /\ FileIdle /\ BinsInit /\ PlotIdle
NextBins == ComputeLogRange \/ ReturnEdges
SpecBins == InitBins /\ [][NextBins]_vars

\* one call of plot_occurrence
InitPlot == StatsIdle /\ FileIdle /\ BinsIdle /\ PlotInit
SpecPlot == InitPlot /\ [][PlotOccurrence]_vars

(***************************************************************************)
(* Claims about stats.py                                                   *)
(***************************************************************************)

\* m lies in the interval (lower, upper] of category c
InCategory(m, c) == m > massLimits[c][1] /\ m <= massLimits[c][2]

\* the columns of a row other than planetType
Data(row) == [status |-> row.status, m |-> row.m, isystem |-> row.isystem]
DataOf(rows) == [i \in DOMAIN rows |-> Data(rows[i])]

\* what C1 says of a categorized table
LabelledAsClaimed(pop) ==
    \A i \in DOMAIN pop :
        /\ \A c \in DOMAIN massLimits :
              /\ (pop[i].status = 0 /\ InCategory(pop[i].m, c))
                    => pop[i].planetType = c
              /\ (pop[i].status = 2 /\ InCategory(pop[i].m, c))
                    => pop[i].planetType = c \o "_ejected"
        /\ pop[i].status \notin {0, 2} => pop[i].planetType = NaN

\* C1: a run of categorizePlanets on a table without planetType column
\* labels every status-0 row whose mass lies in a category's (lower, upper]
\* with exactly that category, every such status-2 row with the category
\* followed by "_ejected", and leaves rows of any other status unlabelled.
C1_Categorized ==
    [][("planetType" \notin columns /\ call'.op = "categorizePlanets")
          => LabelledAsClaimed(population')]_vars

C1_Witness ==
    /\ call.op = "categorizePlanets"
    /\ runs = 1
    /\ Len(population) = 2
    /\ population[1].status = 2 /\ population[1].planetType = "Earth_ejected"
    /\ population[2].status = 1 /\ population[2].planetType = NaN

\* C2: filterPlanets with a key of the mass table returns exactly the rows
\* of its input with status 0 and mass in that category's (lower, upper],
\* in index order: no status-2 row, no row of another status, none left out.
C2_FilterKnown ==
    (call.op = "filterPlanets" /\ call.pType \in DOMAIN massLimits)
        => /\ ret.kind = "frame"
           /\ ret.rows = RowsOfType(population, call.pType)
           /\ DataOf(ret.rows) =
                 SelectSeq(DataOf(population),
                           LAMBDA d : d.status = 0 /\ InCategory(d.m, call.pType))

C2_Witness ==
    /\ call.op = "filterPlanets"
    /\ call.pType = "Neptune"
    /\ Len(population) = 2
    /\ population[1].status = 2 /\ InCategory(population[1].m, "Neptune")
    /\ population[2].status = 0 /\ InCategory(population[2].m, "Neptune")
    /\ Len(ret.rows) = 1

\* C3: filterPlanets with a name that is no key of the mass table warns
\* and returns its input as it was: same rows, same columns, no planetType
\* column added or overwritten, categorizePlanets not run.
C3_FilterUnknown ==
    [][(call'.op = "filterPlanets" /\ call'.pType \notin DOMAIN massLimits)
          => /\ warnings' = {call'.pType}
             /\ ret' = Frame(population, columns)
             /\ population' = population
             /\ columns' = columns
             /\ runs' = runs]_vars

C3_Witness ==
    /\ call.op = "filterPlanets"
    /\ call.pType = "Jupiter"
    /\ warnings = {"Jupiter"}
    /\ Len(population) = 2
    /\ "planetType" \notin columns
    /\ ret = Frame(population, columns)

\* C10: once categorizePlanets has run on a table, every further run, alone
\* or through filterPlanets, leaves each row's planetType as it is; the
\* suffix "_ejected" is never appended a second time.
C10_Idempotent ==
    [][runs >= 1 => population' = population]_vars

C10_Witness ==
    /\ runs = 2
    /\ call.op = "filterPlanets"
    /\ call.pType = "Earth"
    /\ Len(population) = 2
    /\ population[1].status = 2 /\ population[1].planetType = "Earth_ejected"
    /\ population[2].status = 2 /\ population[2].planetType = NaN

\* equality of two exact ratios
RatioEq(p, q) == p[1] * q[2] = q[1] * p[2]

\* C6: get_typeStats with an empty filtered population completes, for any
\* full population, and returns multiplicity 0, Nplanets 0 and Nsystems 0.
C6_EmptyFiltered ==
    (call.op = "get_typeStats" /\ call.filtered = <<>>)
        => /\ ret.kind = "stats"
           /\ RatioEq(ret.multiplicity, <<0, 1>>)
           /\ ret.Nplanets = 0
           /\ ret.Nsystems = 0

\* C7: for a non-empty filtered population the multiplicity get_typeStats
\* returns is the number of filtered rows divided by the number of distinct
\* isystem values among them.
C7_Multiplicity ==
    (call.op = "get_typeStats" /\ call.filtered # <<>> /\ ret.kind = "stats")
        => RatioEq(ret.multiplicity,
                   <<Len(call.filtered), nunique(call.filtered)>>)

(***************************************************************************)
(* Claims about utils.replace_line                                         *)
(***************************************************************************)

\* the lines of a text, each with its terminator
RECURSIVE LinesOf(_)
LinesOf(text) ==
    IF text = <<>> THEN <<>>
    ELSE LET e == LineEnd(text, 1)
         IN  <<SubSeq(text, 1, e)>> \o LinesOf(SubSeq(text, e + 1, Len(text)))

RECURSIVE Concat(_)
Concat(ss) == IF ss = <<>> THEN <<>> ELSE Head(ss) \o Concat(Tail(ss))

\* every occurrence of pat in every line of text replaced by rep
ReplacedText(text, pat, rep) ==
    LET ls == LinesOf(text)
    IN  Concat([i \in DOMAIN ls |-> StrReplace(ls[i], pat, rep)])

\* every character c of text replaced by rep
CharReplaced(text, c, rep) ==
    Concat([i \in DOMAIN text |-> IF text[i] = c THEN rep ELSE <<text[i]>>])

\* whether pat occurs in text
Occurs(text, pat) == \E i \in 1..(Len(text) + 1) : MatchAt(text, pat, i)

IsPrefix(p, t) == Len(p) <= Len(t) /\ SubSeq(t, 1, Len(p)) = p

InCall == rl.before.exists /\ pc \in {"start", "write", "backup", "remove", "move", "copy"}

\* C5 as stated: in every state of a call the target path holds the
\* complete original content or the complete replaced content.
C5_Atomic ==
    InCall
        => /\ fs[Filename].exists
           /\ fs[Filename].text \in
                 {rl.before.text,
                  ReplacedText(rl.before.text, rl.pattern, rl.replacement)}

\* C5 amended: the replacement is ordered, not atomic. The target holds
\* the complete original content until remove(filename), is missing from
\* then until the move puts the new file there, holds a prefix of the
\* replaced content while a cross-filesystem move copies it, and holds the
\* complete replaced content once the call has completed.
C5_Ordered ==
    rl.before.exists
        => /\ pc \in {"start", "write", "backup", "remove"}
                 => fs[Filename] = rl.before
           /\ pc = "move" => ~fs[Filename].exists
           /\ pc = "copy"
                 => /\ fs[Filename].exists
                    /\ IsPrefix(fs[Filename].text,
                          ReplacedText(rl.before.text, rl.pattern, rl.replacement))
           /\ pc = "done"
                 => fs[Filename] =
                       File(ReplacedText(rl.before.text, rl.pattern, rl.replacement))
           /\ pc \in {"start", "write", "backup", "remove", "move", "copy", "done"}

C5_Witness ==
    /\ pc = "move"
    /\ rl.before = File(<<"a", "b">>)
    /\ ~fs[Filename].exists
    /\ fs[TmpPath].exists

(***************************************************************************)
(* Claims about planetePlots.py                                            *)
(***************************************************************************)

\* C8: for 0 < low < high and a positive binWidth_dex the edges
\* compute_logbins returns start at low, each is 10^binWidth_dex times the
\* one before (so they increase), and the last is at least high.
C8_LastEdgeCoversHigh ==
    (binsPc = "done" /\ binsArgs.Range[1] < binsArgs.Range[2])
        => /\ Len(bins) >= 1
           /\ bins[1] = binsArgs.Range[1]
           /\ \A i \in 1..(Len(bins) - 1) :
                 /\ bins[i + 1] = bins[i] * Pow10(binsArgs.binWidth_dex)
                 /\ bins[i + 1] > bins[i]
           /\ bins[Len(bins)] >= binsArgs.Range[2]

C8_Witness ==
    /\ binsPc = "done"
    /\ binsArgs = [binWidth_dex |-> 2, Range |-> <<10, 10000>>]
    /\ bins = <<10, 1000, 100000>>

\* C9: plot_occurrence on a population that holds both axis columns
\* completes, with a caller-supplied axis as without one, draws the colour
\* bar and returns the axis it drew on: the supplied one, or the new one.
C9_SuppliedAxis ==
    (plotOut.kind # "none" /\ plotArgs.hasX /\ plotArgs.hasY)
        => /\ plotOut.kind = "returned"
           /\ plotOut.ax = (IF plotArgs.ax = None THEN NewAx ELSE plotArgs.ax)
           /\ "colorbar" \in axes[plotOut.ax]

====
